---- MODULE Spec2Model ----
(***************************************************************************)
(* PokeSwipeRN: the swipe screen (screens/SwipeScreen.tsx) as a state      *)
(* machine.                                                                *)
(*                                                                         *)
(* The screen is a React function component.  Every handler is a closure   *)
(* over the values of the render that created it, so the model passes each *)
(* handler the closure `r` it runs with:                                   *)
(*   - the Like / Dislike / Try Again buttons get the handlers of the      *)
(*     latest render (LatestRender);                                       *)
(*   - the PanResponder is created once, inside useRef(), so its handlers  *)
(*     are those of the first render for the whole life of the screen      *)
(*     (FirstRender);                                                      *)
(*   - an animation's completion callback and the continuation of an       *)
(*     awaited fetch keep the closure of the render that started them.     *)
(* State updates made by a handler are rendered before the next event is   *)
(* delivered (React flushes the updates of a discrete event at its end).   *)
(*                                                                         *)
(* Animated: starting an animation on a value, or calling setValue on it,  *)
(* stops the animation that drives the value, and stopping an animation    *)
(* invokes the callback given to start() (with finished = false).  The     *)
(* frames of an animation are not modelled: position keeps its value until *)
(* the animation ends or is stopped.                                       *)
(*                                                                         *)
(* fetchPokemon reads only the seenPokemonIds of its closure and writes no *)
(* state before it returns, so an awaited call is one pending task that    *)
(* resolves in one step to any result its loop can produce.                *)
(***************************************************************************)
EXTENDS Integers, Sequences, FiniteSets, Bags, TLC

\* ---------------------------------------------------------------- bounds
\* ids the remote API can return: 1..MaxId
MaxId == 2
\* a quarter of the window width, in layout units
QuarterWidth == 2
\* fetches that may be in flight together
MaxTasks == 1
\* commit-rights started in one behaviour (commit-lefts are not limited)
MaxLikes == 2

\* ------------------------------------------------------- program constants
maxAttempts == 10

width == 4 * QuarterWidth
SWIPE_THRESHOLD == (width * 25) \div 100

Ids == 1 .. MaxId

\* a Pokemon is identified by its id; null is the id 0
Pokemon(i) == [id |-> i]
null == Pokemon(0)

NoError == "null"
FetchFailed == "Failed to fetch Pokemon. Please try again."

getOfficialArtworkUrl(i) == <<"official-artwork", i, "png">>

\* the LikedPokemon that swipeRight derives from the displayed Pokemon
LikedOf(p) == [id |-> p.id, imageUrl |-> getOfficialArtworkUrl(p.id)]

\* what the liked collection holds when the screen mounts (loaded from storage)
StoredLiked == {<< >>, <<LikedOf(Pokemon(1))>>}

\* horizontal and vertical displacements a gesture reports
DragXs == {-(SWIPE_THRESHOLD + 1), -SWIPE_THRESHOLD, SWIPE_THRESHOLD, SWIPE_THRESHOLD + 1}
DragYs == {2}

Origin == [x |-> 0, y |-> 0]
NoGesture == [active |-> FALSE, dx |-> 0]

VARIABLES
    currentPokemon,    \* useState: the Pokemon on the card, or null
    nextPokemon,       \* useState: the prefetched Pokemon, or null
    isInitialLoading,  \* useState
    error,             \* useState: NoError or the message
    isAnimating,       \* useState: the is-transitioning flag
    likedPokemon,      \* context: sequence of LikedPokemon
    seenPokemonIds,    \* context: set of ids
    position,          \* Animated.ValueXY
    anim,              \* the animation driving position, with its callback's closure
    gesture,           \* the PanResponder's gesture: active, accumulated dx
    tasks,             \* bag of awaited fetchPokemon calls, each with its closure
    rights,            \* history: the ids of the commit-rights started, in order
    leftDone,          \* history: a commit-left has completed
    inFlight,          \* history: commits started minus completion callbacks run
    owed,              \* history: completion callbacks run minus calls of moveToNext
    stored,            \* history: the liked collection at mount
    call               \* one call of fetchPokemon, followed fetch by fetch

vars == <<currentPokemon, nextPokemon, isInitialLoading, error, isAnimating,
          likedPokemon, seenPokemonIds, position, anim, gesture, tasks,
          rights, leftDone, inFlight, owed, stored, call>>

\* the whole state as one record, so that handlers compose as functions
State == [currentPokemon |-> currentPokemon, nextPokemon |-> nextPokemon,
          isInitialLoading |-> isInitialLoading, error |-> error,
          isAnimating |-> isAnimating, likedPokemon |-> likedPokemon,
          seenPokemonIds |-> seenPokemonIds, position |-> position,
          anim |-> anim, gesture |-> gesture, tasks |-> tasks,
          rights |-> rights, leftDone |-> leftDone, inFlight |-> inFlight,
          owed |-> owed, stored |-> stored, call |-> call]

Bounded(s) == /\ BagCardinality(s.tasks) <= MaxTasks
              /\ Len(s.rights) <= MaxLikes

Becomes(s) ==
    /\ Bounded(s)
    /\ currentPokemon' = s.currentPokemon
    /\ nextPokemon' = s.nextPokemon
    /\ isInitialLoading' = s.isInitialLoading
    /\ error' = s.error
    /\ isAnimating' = s.isAnimating
    /\ likedPokemon' = s.likedPokemon
    /\ seenPokemonIds' = s.seenPokemonIds
    /\ position' = s.position
    /\ anim' = s.anim
    /\ gesture' = s.gesture
    /\ tasks' = s.tasks
    /\ rights' = s.rights
    /\ leftDone' = s.leftDone
    /\ inFlight' = s.inFlight
    /\ owed' = s.owed
    /\ stored' = s.stored
    /\ call' = s.call

\* ------------------------------------------------------------- closures
\* what a handler created by a render sees
Closure(s) == [isAnimating |-> s.isAnimating,
               currentPokemon |-> s.currentPokemon,
               nextPokemon |-> s.nextPokemon,
               seenPokemonIds |-> s.seenPokemonIds]

\* the first render: the useState initial values, the context as at mount
FirstRender == [isAnimating |-> FALSE, currentPokemon |-> null,
                nextPokemon |-> null, seenPokemonIds |-> {}]

LatestRender(s) == Closure(s)

\* the closure of the handlers inside useRef(PanResponder.create(...)).current
PanClosure(s) == FirstRender

\* ------------------------------------------------------------ animations
NoAnim == [kind |-> "none", dir |-> "none", r |-> FirstRender]
Spring == [kind |-> "spring", dir |-> "none", r |-> FirstRender]
Timing(d, r) == [kind |-> "timing", dir |-> d, r |-> r]

\* ------------------------------------------------- PokemonContext (store)
isLiked_never(liked, i) == FALSE
isLiked(liked, i) == \E k \in 1 .. Len(liked) : liked[k].id = i

addLikedPokemon(liked, item) ==
    IF isLiked(liked, item.id) THEN liked ELSE Append(liked, item)

addSeenPokemon(seen, i) == seen \cup {i}

\* ------------------------------------------------------------ fetching
FetchTask(k, r) == [kind |-> k, seen |-> r.seenPokemonIds]

Spawn(bag, t) == bag (+) SetToBag({t})

\* fetchPokemon: the runs of the do-while loop after `attempts` fetches.  A
\* run ends with the Pokemon returned (null when a fetch threw) and the
\* number of fetches issued.
RECURSIVE fetchLoop(_, _)
fetchLoop(seen, attempts) ==
    LET n == attempts + 1 IN
      {[pokemon |-> null, attempts |-> n]}
      \cup {[pokemon |-> Pokemon(i), attempts |-> n] : i \in Ids \ seen}
      \cup (IF Ids \cap seen = {} THEN {}
            ELSE IF n < maxAttempts THEN fetchLoop(seen, n)
            ELSE {[pokemon |-> Pokemon(i), attempts |-> n] : i \in Ids \cap seen})

fetchPokemon(seen) == fetchLoop(seen, 0)

\* the same call followed one remote fetch at a time: `draw` is the id that
\* fetchRandomPokemon returns, or Throws when it rejects.  `fetches` counts the
\* remote fetches issued, `attempts` is the loop's counter.
Throws == 0
NoCall == [pc |-> "none", seen |-> {}, attempts |-> 0, fetches |-> 0,
           pokemon |-> null, threw |-> FALSE]
fetchCall(seen) == [NoCall EXCEPT !.pc = "loop", !.seen = seen]

fetchStep_retries(c, draw) ==
    LET n == c.attempts + 1 IN
    IF draw = Throws
    THEN [c EXCEPT !.attempts = n, !.fetches = @ + 1, !.threw = TRUE,
                   !.pokemon = null,
                   !.pc = IF n < maxAttempts THEN "loop" ELSE "returned"]
    ELSE [c EXCEPT !.pokemon = Pokemon(draw), !.attempts = n,
                   !.fetches = @ + 1, !.threw = FALSE,
                   !.pc = IF draw \in c.seen /\ n < maxAttempts
                          THEN "loop" ELSE "returned"]
fetchStep_offByOne(c, draw) ==
    LET n == c.attempts + 1 IN
    IF draw = Throws
    THEN [c EXCEPT !.pc = "returned", !.pokemon = null,
                   !.fetches = @ + 1, !.threw = TRUE]
    ELSE [c EXCEPT !.pokemon = Pokemon(draw), !.attempts = n,
                   !.fetches = @ + 1,
                   !.pc = IF draw \in c.seen /\ n <= maxAttempts
                          THEN "loop" ELSE "returned"]
fetchStep(c, draw) ==
    LET n == c.attempts + 1 IN
    IF draw = Throws
    THEN [c EXCEPT !.pc = "returned", !.pokemon = null,
                   !.fetches = @ + 1, !.threw = TRUE]
    ELSE [c EXCEPT !.pokemon = Pokemon(draw), !.attempts = n,
                   !.fetches = @ + 1,
                   !.pc = IF draw \in c.seen /\ n < maxAttempts
                          THEN "loop" ELSE "returned"]

\* what one call of fetchPokemon can resolve to
fetched(seen) == {run.pokemon : run \in fetchPokemon(seen)}

\* prefetchNext, up to its await
prefetchNext(seen, s) ==
    [s EXCEPT !.tasks = Spawn(@, [kind |-> "prefetch", seen |-> seen])]

\* present p: setCurrentPokemon(p); addSeenPokemon(p.id); prefetchNext()
Present_noSeen(p, seen, s) ==
    prefetchNext(seen, [s EXCEPT !.currentPokemon = p])
Present(p, seen, s) ==
    prefetchNext(seen, [s EXCEPT !.currentPokemon = p,
                                 !.seenPokemonIds = addSeenPokemon(@, p.id)])

\* moveToNext, up to its await, with the closure r of the render it is from
moveToNext_noSeen(r, s) ==
    LET t == [s EXCEPT !.owed = @ - 1] IN
    IF r.nextPokemon # null
    THEN prefetchNext(r.seenPokemonIds,
                      [t EXCEPT !.currentPokemon = r.nextPokemon,
                                !.nextPokemon = null])
    ELSE [t EXCEPT !.tasks = Spawn(@, FetchTask("fallback", r))]
moveToNext(r, s) ==
    LET t == [s EXCEPT !.owed = @ - 1] IN
    IF r.nextPokemon # null
    THEN prefetchNext(r.seenPokemonIds,
                      [t EXCEPT !.currentPokemon = r.nextPokemon,
                                !.seenPokemonIds = addSeenPokemon(@, r.nextPokemon.id),
                                !.nextPokemon = null])
    ELSE [t EXCEPT !.tasks = Spawn(@, FetchTask("fallback", r))]

\* ------------------------------------------------------- swipe actions
\* the callback given to Animated.timing(...).start() by swipeRight / swipeLeft
completion_likeAlways(a, s) ==
    LET liked == IF a.r.currentPokemon # null /\ ~isLiked(s.likedPokemon, a.r.currentPokemon.id)
                 THEN addLikedPokemon(s.likedPokemon, LikedOf(a.r.currentPokemon))
                 ELSE s.likedPokemon
    IN moveToNext(a.r, [s EXCEPT !.likedPokemon = liked,
                                 !.position = Origin,
                                 !.isAnimating = FALSE,
                                 !.inFlight = @ - 1,
                                 !.owed = @ + 1,
                                 !.leftDone = @ \/ a.dir = "left"])
completion_likesNext(a, s) ==
    LET shown == IF a.r.nextPokemon # null THEN a.r.nextPokemon ELSE a.r.currentPokemon
        liked == IF /\ a.dir = "right"
                    /\ shown # null
                    /\ ~isLiked(s.likedPokemon, shown.id)
                 THEN addLikedPokemon(s.likedPokemon, LikedOf(shown))
                 ELSE s.likedPokemon
    IN moveToNext(a.r, [s EXCEPT !.likedPokemon = liked,
                                 !.position = Origin,
                                 !.isAnimating = FALSE,
                                 !.inFlight = @ - 1,
                                 !.owed = @ + 1,
                                 !.leftDone = @ \/ a.dir = "left"])
completion(a, s) ==
    LET liked == IF /\ a.dir = "right"
                    /\ a.r.currentPokemon # null
                    /\ ~isLiked(s.likedPokemon, a.r.currentPokemon.id)
                 THEN addLikedPokemon(s.likedPokemon, LikedOf(a.r.currentPokemon))
                 ELSE s.likedPokemon
    IN moveToNext(a.r, [s EXCEPT !.likedPokemon = liked,
                                 !.position = Origin,
                                 !.isAnimating = FALSE,
                                 !.inFlight = @ - 1,
                                 !.owed = @ + 1,
                                 !.leftDone = @ \/ a.dir = "left"])

\* stopping the animation that drives position runs its callback
stopAnimation(s) ==
    IF s.anim.kind = "timing"
    THEN completion(s.anim, [s EXCEPT !.anim = NoAnim])
    ELSE [s EXCEPT !.anim = NoAnim]

startAnimation(a, s) == [stopAnimation(s) EXCEPT !.anim = a]

setValue(v, s) == [stopAnimation(s) EXCEPT !.position = v]

resetPosition_none(s) == s
resetPosition(s) == startAnimation(Spring, s)

swipe(d, r, s) ==
    startAnimation(Timing(d, r),
                   [s EXCEPT !.isAnimating = TRUE,
                             !.inFlight = @ + 1,
                             !.rights = IF d = "right"
                                        THEN Append(@, r.currentPokemon.id) ELSE @])

swipeRight_unguarded(r, s) ==
    IF r.currentPokemon = null THEN s ELSE swipe("right", r, s)
swipeRight(r, s) ==
    IF r.isAnimating \/ r.currentPokemon = null THEN s ELSE swipe("right", r, s)

swipeLeft(r, s) ==
    IF r.isAnimating \/ r.currentPokemon = null THEN s ELSE swipe("left", r, s)

\* ------------------------------------------------------ interpolations
\* Animated interpolate with extrapolate: 'clamp' over one input segment:
\* the output as a numerator over the denominator inHi - inLo
Clamp(x, lo, hi) == IF x < lo THEN lo ELSE IF x > hi THEN hi ELSE x

interpolate(x, inLo, inHi, outLo, outHi) ==
    outLo * (inHi - inLo) + (Clamp(x, inLo, inHi) - inLo) * (outHi - outLo)

likeOpacity(x) == interpolate(x, 0, width \div 4, 0, 1)

dislikeOpacity_swapped(x) == interpolate(x, -(width \div 4), 0, 0, 1)
dislikeOpacity(x) == interpolate(x, -(width \div 4), 0, 1, 0)

\* --------------------------------------------------------- PanResponder
onStartShouldSetPanResponder(r) == ~r.isAnimating

onPanResponderMove(dx, dy, s) ==
    setValue([x |-> dx, y |-> dy \div 2], s)

onPanResponderRelease(r, dx, s) ==
    IF dx > SWIPE_THRESHOLD THEN swipeRight(r, s)
    ELSE IF dx < -SWIPE_THRESHOLD THEN swipeLeft(r, s)
    ELSE resetPosition(s)

\* the card, with its pan handlers and buttons, is rendered
CardShown(s) == /\ ~s.isInitialLoading
                /\ s.error = NoError
                /\ s.currentPokemon # null

\* ------------------------------------------------------------------ Init
Init ==
    /\ currentPokemon = null
    /\ nextPokemon = null
    /\ isInitialLoading = TRUE
    /\ error = NoError
    /\ isAnimating = FALSE
    /\ likedPokemon \in StoredLiked
    /\ seenPokemonIds = {}
    /\ position = Origin
    /\ anim = NoAnim
    /\ gesture = NoGesture
    /\ tasks = SetToBag({FetchTask("init", FirstRender)})
    /\ rights = << >>
    /\ leftDone = FALSE
    /\ inFlight = 0
    /\ owed = 0
    /\ stored = likedPokemon
    /\ call = NoCall

\* --------------------------------------------------------------- actions
Await(k) == {t \in BagToSet(tasks) : t.kind = k}
Resolved(t, s) == [s EXCEPT !.tasks = @ (-) SetToBag({t})]

\* the continuation of `await fetchPokemon()` in init / handleRetry
loaded(t, p, s) ==
    LET u == IF p # null THEN Present(p, t.seen, s)
             ELSE [s EXCEPT !.error = FetchFailed]
    IN [u EXCEPT !.isInitialLoading = FALSE]

InitResolve ==
    \E t \in Await("init") : \E p \in fetched(t.seen) :
        Becomes(loaded(t, p, Resolved(t, State)))

handleRetry_keepsError(r, s) ==
    [s EXCEPT !.isInitialLoading = TRUE,
              !.tasks = Spawn(@, FetchTask("retry", r))]
handleRetry(r, s) ==
    [s EXCEPT !.isInitialLoading = TRUE,
              !.error = NoError,
              !.tasks = Spawn(@, FetchTask("retry", r))]

PressRetry ==
    /\ ~isInitialLoading
    /\ error # NoError
    /\ Becomes(handleRetry(LatestRender(State), State))

RetryResolve ==
    \E t \in Await("retry") : \E p \in fetched(t.seen) :
        Becomes(loaded(t, p, Resolved(t, State)))

\* the continuation of `await fetchPokemon()` in moveToNext
fallback_setsError(t, p, s) ==
    IF p # null THEN Present(p, t.seen, s) ELSE [s EXCEPT !.error = FetchFailed]
fallback(t, p, s) ==
    IF p # null THEN Present(p, t.seen, s) ELSE s

FallbackResolve ==
    \E t \in Await("fallback") : \E p \in fetched(t.seen) :
        Becomes(fallback(t, p, Resolved(t, State)))

\* the continuation of `await fetchPokemon()` in prefetchNext
prefetched(p, s) ==
    IF p # null THEN [s EXCEPT !.nextPokemon = p] ELSE s

PrefetchResolve ==
    \E t \in Await("prefetch") : \E p \in fetched(t.seen) :
        Becomes(prefetched(p, Resolved(t, State)))

\* a button is pressed only while no gesture holds the responder (the
\* responder is single), and a commit is started only while its advance has
\* room for its fetch
CanPress == /\ CardShown(State)
            /\ ~gesture.active
            /\ BagCardinality(tasks) < MaxTasks

PressLike ==
    /\ CanPress
    /\ Len(rights) < MaxLikes
    /\ swipeRight(LatestRender(State), State) # State
    /\ Becomes(swipeRight(LatestRender(State), State))

PressDislike ==
    /\ CanPress
    /\ swipeLeft(LatestRender(State), State) # State
    /\ Becomes(swipeLeft(LatestRender(State), State))

GestureStart ==
    /\ CardShown(State)
    /\ ~gesture.active
    /\ onStartShouldSetPanResponder(PanClosure(State))
    /\ gesture' = [active |-> TRUE, dx |-> 0]
    /\ UNCHANGED <<currentPokemon, nextPokemon, isInitialLoading, error,
                   isAnimating, likedPokemon, seenPokemonIds, position, anim,
                   tasks, rights, leftDone, inFlight, owed, stored, call>>

GestureMove ==
    /\ gesture.active
    /\ \E dx \in DragXs, dy \in DragYs :
          Becomes(onPanResponderMove(dx, dy,
                    [State EXCEPT !.gesture = [active |-> TRUE, dx |-> dx]]))

GestureRelease ==
    /\ gesture.active
    /\ Becomes(onPanResponderRelease(PanClosure(State), gesture.dx,
                                     [State EXCEPT !.gesture = NoGesture]))

\* the fly-out reaches its target after SWIPE_OUT_DURATION
TimingEnd ==
    /\ anim.kind = "timing"
    /\ Becomes(stopAnimation(State))

\* the spring comes to rest on its toValue
SpringEnd ==
    /\ anim.kind = "spring"
    /\ Becomes([State EXCEPT !.anim = NoAnim, !.position = Origin])

Next ==
    \/ InitResolve
    \/ PressRetry
    \/ RetryResolve
    \/ FallbackResolve
    \/ PrefetchResolve
    \/ PressLike
    \/ PressDislike
    \/ GestureStart
    \/ GestureMove
    \/ GestureRelease
    \/ TimingEnd
    \/ SpringEnd

Spec == Init /\ [][Next]_vars

\* the runtime ends every animation it runs; the user owes nothing
SpecFair == Spec /\ WF_vars(TimingEnd) /\ WF_vars(SpringEnd)

\* ------------------------------------------------- one load, step by step
\* A load (init; handleRetry continues the same way) whose fetchPokemon holds
\* any seen-id set the store may have handed to its render, the call followed
\* fetch by fetch, and the card dragged to any offset of the drag range.
DragRange == -(SWIPE_THRESHOLD + 1) .. (SWIPE_THRESHOLD + 1)

UnitInit ==
    /\ currentPokemon = null
    /\ nextPokemon = null
    /\ isInitialLoading = TRUE
    /\ error = NoError
    /\ isAnimating = FALSE
    /\ likedPokemon \in StoredLiked
    /\ seenPokemonIds \in SUBSET Ids
    /\ position = Origin
    /\ anim = NoAnim
    /\ gesture = NoGesture
    /\ tasks = SetToBag({[kind |-> "init", seen |-> seenPokemonIds]})
    /\ rights = << >>
    /\ leftDone = FALSE
    /\ inFlight = 0
    /\ owed = 0
    /\ stored = likedPokemon
    /\ call = fetchCall(seenPokemonIds)

UnitFetch ==
    /\ call.pc = "loop"
    /\ \E draw \in Ids \cup {Throws} :
          Becomes([State EXCEPT !.call = fetchStep(call, draw)])

UnitLoaded ==
    /\ call.pc = "returned"
    /\ \E t \in Await("init") :
          Becomes(loaded(t, call.pokemon,
                         Resolved(t, [State EXCEPT !.call.pc = "done"])))

UnitDrag ==
    \E dx \in DragRange, dy \in DragYs :
        /\ position.x # dx
        /\ Becomes(onPanResponderMove(dx, dy, State))

UnitNext == UnitFetch \/ UnitLoaded \/ UnitDrag

UnitSpec == UnitInit /\ [][UnitNext]_vars

\* ================================================================ claims
\* the ids of a sequence of liked items
IdsOf(seq) == [k \in 1 .. Len(seq) |-> seq[k].id]
Distinct(seq) == \A j, k \in 1 .. Len(seq) : j # k => seq[j] # seq[k]
LikedItems(ids) == [k \in 1 .. Len(ids) |-> LikedOf(Pokemon(ids[k]))]
Abs(n) == IF n < 0 THEN -n ELSE n

\* the ids of the commit-rights whose completion callback has run, in order
Done == IF anim.kind = "timing" /\ anim.dir = "right"
        THEN SubSeq(rights, 1, Len(rights) - 1)
        ELSE rights

\* steps of the PanResponder, of a commit's start and of its completion callback
ReleaseStep == gesture.active /\ ~gesture'.active
StartStep == inFlight' > inFlight
CompletionStep == anim.kind = "timing" /\ anim'.kind # "timing"

C2_ReleaseRightCommits ==
    [][(ReleaseStep /\ gesture.dx > SWIPE_THRESHOLD /\ CardShown(State) /\ ~isAnimating)
         => /\ isAnimating'
            /\ anim' = Timing("right", LatestRender(State))]_vars

\* C3 (as claimed): a drag release with |dx| <= T commits nothing: the liked
\* collection, the seen-id set and the current item are unchanged and the
\* offset is sprung back to {0,0}
C3_ReleaseWithinThresholdResets ==
    [][(ReleaseStep /\ Abs(gesture.dx) <= SWIPE_THRESHOLD)
         => /\ likedPokemon' = likedPokemon
            /\ seenPokemonIds' = seenPokemonIds
            /\ currentPokemon' = currentPokemon
            /\ inFlight' = inFlight
            /\ anim'.kind = "spring"]_vars

\* C4: a commit-left (the completion of a left fly-out, or a drag release with
\* dx < -T) never changes the liked collection; the completion advances once
C4_LeftNeverLikes ==
    [][/\ (CompletionStep /\ anim.dir = "left")
            => (likedPokemon' = likedPokemon /\ owed' = owed)
       /\ (ReleaseStep /\ gesture.dx < -SWIPE_THRESHOLD)
            => likedPokemon' = likedPokemon]_vars

\* C4 witness: only commit-lefts have completed, and the liked collection is
\* still the one loaded at mount
C4_Witness ==
    /\ leftDone /\ rights = << >> /\ inFlight = 0
    /\ likedPokemon = stored

\* C5 (as claimed): while the is-transitioning flag is set no gesture becomes
\* the responder and pointer input does not move the offset
C5_NoGestureWhileAnimating ==
    [][isAnimating => /\ (~gesture.active => ~gesture'.active)
                      /\ (gesture'.active => position' = position)]_vars

\* C6: at most one commit is in flight: a commit starts only when no fly-out
\* is running, the commits started and completed differ by the one in flight,
\* and every completion is one advance
C6_Inv ==
    /\ inFlight = (IF anim.kind = "timing" THEN 1 ELSE 0)
    /\ owed = 0
    /\ isAnimating <=> (anim.kind = "timing")

Effect(s) == <<s.likedPokemon, s.seenPokemonIds, s.currentPokemon, s.nextPokemon,
               s.isAnimating, s.anim, s.inFlight>>

C7_DragEqualsButton ==
    [][/\ (ReleaseStep /\ gesture.dx > SWIPE_THRESHOLD /\ CardShown(State))
            => Effect(State') = Effect(swipeRight(LatestRender(State), State))
       /\ (ReleaseStep /\ gesture.dx < -SWIPE_THRESHOLD /\ CardShown(State))
            => Effect(State') = Effect(swipeLeft(LatestRender(State), State))]_vars

\* C8: when the ids liked at mount and the ids of the completed commit-rights
\* are pairwise distinct, the liked collection is the collection at mount
\* followed by exactly those items, in the order of the commits
C8_LikedInCommitOrder ==
    Distinct(IdsOf(stored) \o Done)
        => likedPokemon = stored \o LikedItems(Done)

\* C8 witness: two commit-rights on distinct ids and a commit-left have completed
C8_Witness ==
    /\ Len(Done) = 2 /\ leftDone /\ inFlight = 0
    /\ Distinct(IdsOf(stored) \o Done)

\* C9: the current item's id is in the seen-id set
C9_CurrentIsSeen ==
    currentPokemon # null => currentPokemon.id \in seenPokemonIds

\* C9 witness: a commit has advanced to an item other than the one committed
C9_Witness ==
    /\ Len(Done) = 1 /\ ~leftDone /\ inFlight = 0
    /\ currentPokemon # null
    /\ currentPokemon.id # Done[1]

\* fresh start, and exactly one commit, a commit-right, has completed
FreshOneRight ==
    /\ stored = << >>
    /\ ~leftDone /\ inFlight = 0
    /\ Len(rights) = 1

Returned == call.pc \in {"returned", "done"}

\* C11: one call of fetchPokemon issues between 1 and 10 remote fetches and
\* returns; every item it passed over had a seen id; an item it returns has an
\* unseen id or is the 10th drawn, which is returned as a success; and the
\* run is one of those fetchPokemon(seen) yields
C11_FetchBounded ==
    /\ call.fetches <= maxAttempts
    /\ call.pc = "loop" /\ call.attempts > 0 => call.pokemon.id \in call.seen
    /\ Returned =>
          /\ call.fetches \in 1 .. maxAttempts
          /\ call.pokemon # null =>
                \/ call.pokemon.id \notin call.seen
                \/ call.attempts = maxAttempts
          /\ [pokemon |-> call.pokemon, attempts |-> call.fetches]
                \in fetchPokemon(call.seen)

C11_Witness ==
    /\ call.pc = "returned"
    /\ call.attempts = maxAttempts
    /\ call.pokemon # null
    /\ call.pokemon.id \in call.seen

\* ---------------------------------------------------------------- C12
\* C12 (as claimed): fetchPokemon reports failure only when the ceiling of 10
\* attempts is exhausted, a failed fetch being attempted again before that
C12_FailureOnlyAtCeiling ==
    Returned /\ call.pokemon = null => call.fetches = maxAttempts

\* C12 (amended): a remote fetch that fails is not attempted again: the call
\* returns failure at once, whatever the number of fetches so far, and
\* fetchPokemon fails in no other way; on the load the failure leaves the
\* screen in the error state with no current item
C12_FailureReturnsAtOnce ==
    /\ call.threw => Returned /\ call.pokemon = null
    /\ Returned /\ call.pokemon = null => call.threw
    /\ call.pc = "done" /\ call.pokemon = null =>
          /\ ~isInitialLoading
          /\ error = FetchFailed
          /\ currentPokemon = null
          /\ nextPokemon = null

C12_Witness ==
    /\ call.pc = "done"
    /\ call.threw
    /\ call.fetches = 2
    /\ error = FetchFailed

\* ---------------------------------------------------------------- C13
\* C13: whenever no drag gesture is active (and, read in the claim's favour,
\* no animation is moving the card) the drag offset is exactly {0,0}
C13_RestingOffsetIsZero ==
    ~gesture.active /\ anim.kind = "none" => position = Origin

\* ---------------------------------------------------------------- C14
\* C14: with opacities as numerators over width/4, the like overlay is dx
\* clamped to [0, width/4] and the dislike overlay is -dx clamped to
\* [0, width/4]; both lie within [0,1], the like overlay is nonzero only for
\* dx > 0, the dislike overlay only for dx < 0, and never both
C14_Opacities ==
    LET dx == position.x
        one == width \div 4
        like == likeOpacity(dx)
        dislike == dislikeOpacity(dx)
    IN /\ like = Clamp(dx, 0, one)
       /\ dislike = Clamp(-dx, 0, one)
       /\ like \in 0 .. one
       /\ dislike \in 0 .. one
       /\ like > 0 => dx > 0
       /\ dislike > 0 => dx < 0
       /\ ~(like > 0 /\ dislike > 0)

C14_Witness ==
    /\ position.x < 0
    /\ dislikeOpacity(position.x) > 0
    /\ dislikeOpacity(position.x) < width \div 4
    /\ likeOpacity(position.x) = 0

\* ---------------------------------------------------------------- C15
\* C15: after a commit sets the is-transitioning flag, a state is eventually
\* reached where the flag is cleared and the drag offset is exactly {0,0}
C15_CommitEventuallyResets ==
    isAnimating ~> (~isAnimating /\ position = Origin)

\* ---------------------------------------------------------------- C16
ErrorXorCard ==
    \/ error # NoError /\ currentPokemon = null
    \/ error = NoError /\ currentPokemon # null

\* C16: whenever the initial-loading flag is false, either the error is set
\* and there is no current item or the error is null and a current item
\* exists; a load or retry that resolves with an item leaves the error null;
\* and a current item is never set back to none
C16_ErrorXorCard ==
    [][/\ ~isInitialLoading' => ErrorXorCard'
       /\ isInitialLoading /\ ~isInitialLoading' /\ currentPokemon' # null
            => error' = NoError
       /\ currentPokemon # null => currentPokemon' # null]_vars

C16_Witness ==
    /\ ~isInitialLoading
    /\ error = FetchFailed
    /\ currentPokemon = null
    /\ tasks = EmptyBag

\* ---------------------------------------------------------------- C17
\* the fallback fetch of an advance resolves with a failure: its task goes
\* and no prefetch takes its place
FallbackFailStep == \E t \in Await("fallback") : tasks' = tasks (-) SetToBag({t})

\* C17: a failed fallback fetch leaves the current item, the prefetched item,
\* the seen-id set, the error, the liked collection and the offset as they
\* were, and the card stays shown; and an id liked twice is stored once
C17_FailedAdvanceChangesNothing ==
    [][/\ FallbackFailStep =>
            /\ UNCHANGED <<currentPokemon, nextPokemon, seenPokemonIds, error,
                           isInitialLoading, isAnimating, likedPokemon,
                           position>>
            /\ error' = NoError
            /\ currentPokemon' # null
       /\ \A i \in Ids :
            Cardinality({k \in 1 .. Len(likedPokemon') :
                           likedPokemon'[k].id = i}) <= 1]_vars

C17_Witness ==
    /\ tasks = EmptyBag
    /\ nextPokemon = null
    /\ inFlight = 0
    /\ Len(Done) = 2
    /\ Done[1] = Done[2]
    /\ currentPokemon.id = Done[1]
    /\ seenPokemonIds = {Done[1]}
    /\ position = Origin
    /\ CardShown(State)
    /\ Len(likedPokemon) = Len(stored) + (IF Done[1] \in {stored[k].id : k \in 1 .. Len(stored)} THEN 0 ELSE 1)

\* ---------------------------------------------------------------- C18
\* C18: the seen-id set consulted by every fetch that is issued, the prefetch
\* issued right after an item is marked seen included, contains all ids
\* presented so far
C18_FetchConsultsAllSeen ==
    [][\A t \in BagToSet(tasks') :
          tasks'[t] > (IF t \in BagToSet(tasks) THEN tasks[t] ELSE 0)
            => seenPokemonIds' \subseteq t.seen]_vars

====
